---- MODULE Spec2Model ----
(***************************************************************************)
(* Model of big_decimal_byte_string_encoder (src/src/lib.rs): the BigQuery *)
(* NUMERIC byte-string encoder and decoder.                                *)
(*                                                                         *)
(* Arbitrary-precision values do not fit TLC's integers, so a BigUint is   *)
(* its big-endian byte sequence without leading zero bytes (<<>> is zero), *)
(* a BigInt is a sign and a BigUint, and a BigDecimal is a BigInt and a    *)
(* scale, as in num-bigint and bigdecimal.                                 *)
(***************************************************************************)
EXTENDS Integers, Sequences, FiniteSets, TLC

VARIABLES pc, decimal, encoded, encoded_neg, bytes, scaled_value, decoded

vars == <<pc, decimal, encoded, encoded_neg, bytes, scaled_value, decoded>>

\* ------------------------------------------------------------------ bounds

\* Longest magnitude, in bytes, drawn over MagAlphabet for encode's inputs.
MaxMagLen == 2
\* Longest wire sequence drawn over WireAlphabet for decode's inputs.
MaxWireLen == 3
\* Most redundant sign bytes put in front of a decode input.
MaxPad == 2
\* Input scales run from -MaxNegScale to NUMERIC_SCALE + MaxOverScale.
MaxNegScale == 2
MaxOverScale == 2
\* Powers of two 2^(8k-1) drawn as magnitudes, k in 1..MaxPow2Bytes.
MaxPow2Bytes == 17
\* Decimal boundary magnitudes 10^k (+-1, -2) are drawn for k up to this many
\* digits past MantissaDigits.
MaxExtraDigits == 2

\* --------------------------------------------------------------- constants

NUMERIC_SCALE == 9

\* "99999999999999999999999999999.999999999": 29 integer digits, 9 fractional.
IntegerDigits == 29
FractionDigits == 9

\* ------------------------------------------------------- BigUint arithmetic

Max(a, b) == IF a >= b THEN a ELSE b

Zeros(n) == [i \in 1..n |-> 0]

Reverse(s) == [i \in 1..Len(s) |-> s[Len(s) + 1 - i]]

RECURSIVE Normalize(_)
\* A BigUint keeps no leading zero bytes.
Normalize(bs) ==
    IF bs = <<>> THEN <<>>
    ELSE IF bs[1] = 0 THEN Normalize(Tail(bs))
    ELSE bs

RECURSIVE MulAdd(_, _, _)
\* mag * m + c, for small m and c (m <= 256, c < 256).
MulAdd(mag, m, c) ==
    IF mag = <<>> THEN (IF c = 0 THEN <<>> ELSE <<c>>)
    ELSE LET n == Len(mag)
             v == mag[n] * m + c
         IN  Append(MulAdd(SubSeq(mag, 1, n - 1), m, v \div 256), v % 256)

RECURSIVE DivQuot(_, _, _)
\* The quotient bytes of mag / m by long division, r the running remainder.
DivQuot(mag, m, r) ==
    IF mag = <<>> THEN <<>>
    ELSE LET v == r * 256 + mag[1]
         IN  <<v \div m>> \o DivQuot(Tail(mag), m, v % m)

DivSmall(mag, m) == Normalize(DivQuot(mag, m, 0))

RECURSIVE MulPow10(_, _)
MulPow10(mag, k) == IF k <= 0 THEN mag ELSE MulPow10(MulAdd(mag, 10, 0), k - 1)

RECURSIVE DivPow10(_, _)
DivPow10(mag, k) == IF k <= 0 THEN mag ELSE DivPow10(DivSmall(mag, 10), k - 1)

RECURSIVE LexCmp(_, _, _)
LexCmp(a, b, i) ==
    IF i > Len(a) THEN 0
    ELSE IF a[i] < b[i] THEN -1
    ELSE IF a[i] > b[i] THEN 1
    ELSE LexCmp(a, b, i + 1)

\* Ordering of two BigUints: -1, 0 or 1.
MagCmp(a, b) ==
    IF Len(a) < Len(b) THEN -1
    ELSE IF Len(a) > Len(b) THEN 1
    ELSE LexCmp(a, b, 1)

RECURSIVE FromDigits(_, _)
\* The BigUint of a decimal digit string, most significant digit first.
FromDigits(digits, acc) ==
    IF digits = <<>> THEN acc
    ELSE FromDigits(Tail(digits), MulAdd(acc, 10, digits[1]))

\* --------------------------------------------------------- BigInt, BigDecimal

\* BigInt::from_biguint: a zero magnitude has no sign.
BigIntOf(sign, mag) ==
    IF mag = <<>> \/ sign = "NoSign"
    THEN [sign |-> "NoSign", mag |-> <<>>]
    ELSE [sign |-> sign, mag |-> mag]

\* BigInt::from_bytes_be
from_bytes_be(sign, bs) == BigIntOf(sign, Normalize(bs))

\* BigInt::to_bytes_be: the sign and the magnitude bytes, [0] for zero.
to_bytes_be(value) ==
    [sign |-> value.sign, bytes |-> IF value.mag = <<>> THEN <<0>> ELSE value.mag]

NegInt(value) ==
    BigIntOf(CASE value.sign = "Minus" -> "Plus"
               [] value.sign = "Plus" -> "Minus"
               [] OTHER -> "NoSign", value.mag)

\* Ordering of two BigInts: -1, 0 or 1.
IntCmp(a, b) ==
    CASE a.sign = "Minus" /\ b.sign = "Minus" -> MagCmp(b.mag, a.mag)
      [] a.sign = "Minus" -> -1
      [] b.sign = "Minus" -> 1
      [] OTHER -> MagCmp(a.mag, b.mag)

\* BigDecimal::new(int, scale): the value int * 10^(-scale).
BigDecimalOf(int, scale) == [int |-> int, scale |-> scale]

\* Ordering of two BigDecimals by value: both brought to the larger scale.
DecCmp(a, b) ==
    LET s == Max(a.scale, b.scale)
        ai == BigIntOf(a.int.sign, MulPow10(a.int.mag, s - a.scale))
        bi == BigIntOf(b.int.sign, MulPow10(b.int.mag, s - b.scale))
    IN  IntCmp(ai, bi)

\* BigDecimal::fractional_digit_count: the scale, negative scales included.
fractional_digit_count(d) == d.scale

\* with_scale as a relabelling of the scale, the digits not moved.
with_scale_NoRescale(d, new_scale) == BigDecimalOf(d.int, new_scale)

\* BigDecimal::with_scale: pads with zero digits, or truncates toward zero.
with_scale(d, new_scale) ==
    IF d.int.sign = "NoSign" THEN BigDecimalOf(d.int, new_scale)
    ELSE IF new_scale > d.scale
         THEN BigDecimalOf(BigIntOf(d.int.sign, MulPow10(d.int.mag, new_scale - d.scale)),
                           new_scale)
    ELSE IF new_scale < d.scale
         THEN BigDecimalOf(BigIntOf(d.int.sign, DivPow10(d.int.mag, d.scale - new_scale)),
                           new_scale)
    ELSE d

\* BigDecimal::as_bigint_and_exponent
as_bigint_and_exponent(d) == [int |-> d.int, exponent |-> d.scale]

\* BigDecimal::from_str on "[-]iii.fff": the digits are the integer, the count
\* of fractional digits the scale.
from_str(negative, int_digits, frac_digits) ==
    BigDecimalOf(BigIntOf(IF negative THEN "Minus" ELSE "Plus",
                          FromDigits(int_digits \o frac_digits, <<>>)),
                 Len(frac_digits))

MAX_NUMERIC_VALUE ==
    from_str(FALSE, [i \in 1..IntegerDigits |-> 9], [i \in 1..FractionDigits |-> 9])

MIN_NUMERIC_VALUE ==
    from_str(TRUE, [i \in 1..IntegerDigits |-> 9], [i \in 1..FractionDigits |-> 9])

\* ------------------------------------------------------------ error results

\* NumericEncoderError::ScaleExceeded(actual, allowed)
ScaleExceeded(actual, allowed) ==
    [tag |-> "ScaleExceeded", actual |-> actual, allowed |-> allowed]

\* NumericEncoderError::Overflow(value.to_string()): the rendering is not
\* modelled, the value rendered is.
Overflow(value) == [tag |-> "Overflow", value |-> value]

\* A Rust panic (index out of bounds, arithmetic overflow): the call aborts.
Panicked == [tag |-> "Panic"]
PanicBytes == <<-1>>
PanicInt == [sign |-> "Panic", mag |-> <<>>]

None == [tag |-> "None"]

\* ------------------------------------------------------ two's-complement codec

\* Increment losing the carry at the first 0xFF byte it clears.
Increment_CarryLost(bs, i, carry) ==
    IF i = 0 \/ ~carry THEN [bytes |-> bs, carry |-> carry]
    ELSE IF bs[i] = 255
         THEN [bytes |-> [bs EXCEPT ![i] = 0], carry |-> FALSE]
         ELSE [bytes |-> [bs EXCEPT ![i] = bs[i] + 1], carry |-> FALSE]

RECURSIVE Increment(_, _, _)
\* Add 1 to bs from its last byte leftward: [bytes, carry] once the carry stops
\* or runs past the first byte.
Increment(bs, i, carry) ==
    IF i = 0 \/ ~carry THEN [bytes |-> bs, carry |-> carry]
    ELSE IF bs[i] = 255
         THEN Increment([bs EXCEPT ![i] = 0], i - 1, TRUE)
         ELSE Increment([bs EXCEPT ![i] = bs[i] + 1], i - 1, FALSE)

\* to_java_byte_array without the 0x00 put before a non-negative form whose top
\* bit is set.
to_java_byte_array_NoZeroPrefix(value) ==
    LET sb == to_bytes_be(value) IN
    IF sb.sign = "Minus"
    THEN LET b2 == [i \in 1..Len(sb.bytes) |-> 255 - sb.bytes[i]]
             inc == Increment(b2, Len(b2), TRUE)
             b3 == IF inc.carry THEN <<1>> \o inc.bytes ELSE inc.bytes
         IN  IF b3[1] < 128 THEN <<255>> \o b3 ELSE b3
    ELSE sb.bytes

\* to_java_byte_array putting 0xFF before every negative form.
to_java_byte_array_AlwaysSignByte(value) ==
    LET sb == to_bytes_be(value) IN
    IF sb.sign = "Minus"
    THEN LET b2 == [i \in 1..Len(sb.bytes) |-> 255 - sb.bytes[i]]
             inc == Increment(b2, Len(b2), TRUE)
             b3 == IF inc.carry THEN <<1>> \o inc.bytes ELSE inc.bytes
         IN  <<255>> \o b3
    ELSE IF sb.bytes # <<>> /\ sb.bytes[1] >= 128 THEN <<0>> \o sb.bytes
    ELSE sb.bytes

to_java_byte_array(value) ==
    LET sb == to_bytes_be(value) IN
    IF sb.sign = "Minus"
    THEN LET b1 == IF sb.bytes = <<>> THEN <<0>> ELSE sb.bytes
             b2 == [i \in 1..Len(b1) |-> 255 - b1[i]]
             inc == Increment(b2, Len(b2), TRUE)
             b3 == IF inc.carry THEN <<1>> \o inc.bytes ELSE inc.bytes
         IN  IF b3 = <<>> THEN PanicBytes
             ELSE IF b3[1] < 128 THEN <<255>> \o b3
             ELSE b3
    ELSE IF sb.bytes # <<>> /\ sb.bytes[1] >= 128 THEN <<0>> \o sb.bytes
    ELSE sb.bytes

RECURSIVE ComplementIncrement_CarryKept(_, _, _)
\* ComplementIncrement never clearing its carry: 1 is added to every byte.
ComplementIncrement_CarryKept(bs, i, carry) ==
    IF i = 0 THEN <<>>
    ELSE LET cb == 255 - bs[i]
             nb == IF cb = 255 THEN 0 ELSE cb + 1
         IN  Append(ComplementIncrement_CarryKept(bs, i - 1, carry), nb)

RECURSIVE ComplementIncrement(_, _, _)
\* Complement every byte of bs and add 1, from the last byte leftward.
ComplementIncrement(bs, i, carry) ==
    IF i = 0 THEN <<>>
    ELSE LET cb == 255 - bs[i]
             nb == IF carry THEN (IF cb = 255 THEN 0 ELSE cb + 1) ELSE cb
         IN  Append(ComplementIncrement(bs, i - 1, carry /\ cb = 255), nb)

RECURSIVE StripLeadingFF(_)
StripLeadingFF(complemented) ==
    IF Len(complemented) > 1 /\ complemented[1] = 255
    THEN StripLeadingFF(Tail(complemented))
    ELSE complemented

RECURSIVE SkipLeadingZeros(_, _)
\* The first index start at which the loop over leading zero bytes stops.
SkipLeadingZeros(bs, start) ==
    IF start < Len(bs) /\ bs[start] = 0
    THEN SkipLeadingZeros(bs, start + 1)
    ELSE start

\* from_java_byte_array without its early return for no bytes: bytes[0] is out
\* of bounds there.
from_java_byte_array_NoEmptyCheck(bs) ==
    IF bs = <<>> THEN PanicInt
    ELSE IF bs[1] >= 128
    THEN from_bytes_be("Minus", StripLeadingFF(ComplementIncrement(bs, Len(bs), TRUE)))
    ELSE from_bytes_be("Plus", SubSeq(bs, SkipLeadingZeros(bs, 1), Len(bs)))

from_java_byte_array(bs) ==
    IF bs = <<>> THEN BigIntOf("NoSign", <<>>)
    ELSE IF bs[1] >= 128
    THEN LET complemented == ComplementIncrement(bs, Len(bs), TRUE)
         IN  from_bytes_be("Minus", StripLeadingFF(complemented))
    ELSE LET start == SkipLeadingZeros(bs, 1)
         IN  from_bytes_be("Plus", SubSeq(bs, start, Len(bs)))

\* ------------------------------------------------------------- entry points

\* encode with the bounds themselves refused (<= and >= for < and >).
encode_bigdecimal_to_bigquery_bytes_ExclusiveBounds(d) ==
    LET scale == fractional_digit_count(d) IN
    IF ~(scale \in 0..NUMERIC_SCALE)
    THEN ScaleExceeded(scale, NUMERIC_SCALE)
    ELSE IF DecCmp(d, MIN_NUMERIC_VALUE) <= 0 \/ DecCmp(d, MAX_NUMERIC_VALUE) >= 0
    THEN Overflow(d)
    ELSE [tag |-> "Ok",
          bytes |-> Reverse(to_java_byte_array(
                        as_bigint_and_exponent(with_scale(d, NUMERIC_SCALE)).int))]

encode_bigdecimal_to_bigquery_bytes(d) ==
    LET scale == fractional_digit_count(d) IN
    IF ~(scale \in 0..NUMERIC_SCALE)
    THEN ScaleExceeded(scale, NUMERIC_SCALE)
    ELSE IF DecCmp(d, MIN_NUMERIC_VALUE) < 0 \/ DecCmp(d, MAX_NUMERIC_VALUE) > 0
    THEN Overflow(d)
    ELSE LET scaled == with_scale(d, NUMERIC_SCALE)
             scaled_int == as_bigint_and_exponent(scaled).int
             out == to_java_byte_array(scaled_int)
         IN  IF out = PanicBytes THEN Panicked
             ELSE [tag |-> "Ok", bytes |-> Reverse(out)]

\* decode reading the wire bytes without reversing them.
DecodeMantissa_NoReverse(bs) == from_java_byte_array(bs)

\* The mantissa decode reads off the wire bytes (its local scaled_value).
DecodeMantissa(bs) == from_java_byte_array(Reverse(bs))

\* decode checking the upper bound only.
decode_bigquery_bytes_to_bigdecimal_NoLowerBound(bs) ==
    LET decimal_value == BigDecimalOf(DecodeMantissa(bs), NUMERIC_SCALE) IN
    IF DecCmp(decimal_value, MAX_NUMERIC_VALUE) > 0
    THEN Overflow(decimal_value)
    ELSE [tag |-> "Ok", value |-> decimal_value]

decode_bigquery_bytes_to_bigdecimal(bs) ==
    LET value == DecodeMantissa(bs) IN
    IF value = PanicInt THEN Panicked
    ELSE LET decimal_value == BigDecimalOf(value, NUMERIC_SCALE) IN
         IF DecCmp(decimal_value, MAX_NUMERIC_VALUE) > 0
            \/ DecCmp(decimal_value, MIN_NUMERIC_VALUE) < 0
         THEN Overflow(decimal_value)
         ELSE [tag |-> "Ok", value |-> decimal_value]

\* ------------------------------------------------------------------- inputs

\* Bytes at the edges of the sign bit and of the carry.
ByteAlphabet == {0, 1, 127, 128, 129, 255}

SeqsUpTo(n) == UNION {[1..k -> ByteAlphabet] : k \in 0..n}

Nines(k) == FromDigits([i \in 1..k |-> 9], <<>>)
NinesEight(k) == FromDigits([i \in 1..k |-> IF i = k THEN 8 ELSE 9], <<>>)
OneZeros(k) == FromDigits([i \in 1..(k + 1) |-> IF i = 1 THEN 1 ELSE 0], <<>>)
OneZerosOne(k) == FromDigits([i \in 1..(k + 1) |-> IF i \in {1, k + 1} THEN 1 ELSE 0], <<>>)

\* 10^k - 2, 10^k - 1, 10^k, 10^k + 1 around every bound a scale in range can meet.
DecimalEdgeMags ==
    UNION {{Nines(k), NinesEight(k), OneZeros(k), OneZerosOne(k)} :
           k \in (IntegerDigits - MaxExtraDigits)
                 ..(IntegerDigits + FractionDigits + MaxExtraDigits)}

\* 2^(8k-1) - 1, 2^(8k-1), 2^(8k-1) + 1: where the sign bit of the top byte turns.
Pow2EdgeMags ==
    UNION {{<<128>> \o Zeros(k - 1),
            <<127>> \o [i \in 1..(k - 1) |-> 255],
            IF k = 1 THEN <<129>> ELSE <<128>> \o Zeros(k - 2) \o <<1>>} :
           k \in 1..MaxPow2Bytes}

InputMags ==
    {Normalize(s) : s \in SeqsUpTo(MaxMagLen)} \cup DecimalEdgeMags \cup Pow2EdgeMags

InputScales == (0 - MaxNegScale)..(NUMERIC_SCALE + MaxOverScale)

InputDecimals ==
    {BigDecimalOf(BigIntOf(sign, mag), scale) :
        sign \in {"Minus", "Plus"}, mag \in InputMags, scale \in InputScales}

Complement(bs) == [i \in 1..Len(bs) |-> 255 - bs[i]]

\* Wire sequences (least-significant byte first): every short sequence over the
\* alphabet, and the edge magnitudes and their complements behind 0..MaxPad
\* further sign bytes.
InputBytes ==
    SeqsUpTo(MaxWireLen)
    \cup UNION {{Reverse(Zeros(k) \o mag), Reverse(Complement(Zeros(k) \o mag))} :
                k \in 0..MaxPad, mag \in DecimalEdgeMags \cup Pow2EdgeMags}

\* ------------------------------------------------------------ state machine

NegDecimal(d) == BigDecimalOf(NegInt(d.int), d.scale)

Init ==
    /\ pc = "idle"
    /\ decimal = None
    /\ encoded = None
    /\ encoded_neg = None
    /\ bytes = <<>>
    /\ scaled_value = None
    /\ decoded = None

\* A caller encodes a decimal.
Encode ==
    /\ pc = "idle"
    /\ \E d \in InputDecimals :
          /\ decimal' = d
          /\ encoded' = encode_bigdecimal_to_bigquery_bytes(d)
    /\ pc' = "encoded"
    /\ UNCHANGED <<encoded_neg, bytes, scaled_value, decoded>>

\* The caller decodes what encode returned.
DecodeEncoded ==
    /\ pc = "encoded"
    /\ encoded.tag = "Ok"
    /\ bytes' = encoded.bytes
    /\ scaled_value' = DecodeMantissa(encoded.bytes)
    /\ decoded' = decode_bigquery_bytes_to_bigdecimal(encoded.bytes)
    /\ pc' = "roundtrip"
    /\ UNCHANGED <<decimal, encoded, encoded_neg>>

\* The caller encodes the negation of the decimal it encoded.
EncodeNegated ==
    /\ pc = "encoded"
    /\ encoded.tag = "Ok"
    /\ encoded_neg' = encode_bigdecimal_to_bigquery_bytes(NegDecimal(decimal))
    /\ pc' = "mirrored"
    /\ UNCHANGED <<decimal, encoded, bytes, scaled_value, decoded>>

\* A caller decodes a byte sequence.
Decode ==
    /\ pc = "idle"
    /\ \E b \in InputBytes :
          /\ bytes' = b
          /\ scaled_value' = DecodeMantissa(b)
          /\ decoded' = decode_bigquery_bytes_to_bigdecimal(b)
    /\ pc' = "decoded"
    /\ UNCHANGED <<decimal, encoded, encoded_neg>>

\* The caller encodes what decode returned.
EncodeDecoded ==
    /\ pc = "decoded"
    /\ decoded.tag = "Ok"
    /\ decimal' = decoded.value
    /\ encoded' = encode_bigdecimal_to_bigquery_bytes(decoded.value)
    /\ pc' = "reencoded"
    /\ UNCHANGED <<encoded_neg, bytes, scaled_value, decoded>>

Next == Encode \/ DecodeEncoded \/ EncodeNegated \/ Decode \/ EncodeDecoded

Spec == Init /\ [][Next]_vars

\* ------------------------------------------------- reference definitions

RECURSIVE SubBorrow(_, _, _, _)
\* a - b over equal-length byte sequences (a >= b), from the last byte leftward.
SubBorrow(a, b, i, borrow) ==
    IF i = 0 THEN <<>>
    ELSE LET v == a[i] - b[i] - borrow
         IN  Append(SubBorrow(a, b, i - 1, IF v < 0 THEN 1 ELSE 0),
                    IF v < 0 THEN v + 256 ELSE v)

\* The integer a big-endian byte sequence denotes in two's complement: its
\* unsigned value, less 2^(8*Len) when the top bit of the first byte is set.
TwosValue(be) ==
    IF be = <<>> THEN BigIntOf("NoSign", <<>>)
    ELSE IF be[1] >= 128
    THEN BigIntOf("Minus",
                  Normalize(SubBorrow(<<1>> \o Zeros(Len(be)), <<0>> \o be, Len(be) + 1, 0)))
    ELSE BigIntOf("Plus", Normalize(be))

\* d * 10^NUMERIC_SCALE for a decimal whose scale is at most NUMERIC_SCALE.
Mantissa(d) == BigIntOf(d.int.sign, MulPow10(d.int.mag, NUMERIC_SCALE - d.scale))

\* 10^38 - 1, the largest mantissa magnitude: MAX * 10^9.
MaxMantissaMag == Nines(IntegerDigits + FractionDigits)

MantissaInRange(m) == MagCmp(m.mag, MaxMantissaMag) <= 0

ScaleInRange(d) == d.scale \in 0..NUMERIC_SCALE

\* The first byte of a big-endian form only repeats the sign of the rest.
RedundantSignByte(be) ==
    /\ Len(be) > 1
    /\ \/ be[1] = 0 /\ be[2] < 128
       \/ be[1] = 255 /\ be[2] >= 128

RECURSIVE Canonical(_)
\* The shortest big-endian form denoting the same integer; [0] for no bytes.
Canonical(be) ==
    IF be = <<>> THEN <<0>>
    ELSE IF RedundantSignByte(be) THEN Canonical(Tail(be))
    ELSE be

\* be behind k more bytes repeating its sign.
SignExtend(be, k) == [i \in 1..k |-> IF be[1] >= 128 THEN 255 ELSE 0] \o be

\* A magnitude 2^(8k-1): the byte 0x80 and then zero bytes only.
IsSignBitPower(mag) ==
    /\ mag # <<>>
    /\ mag[1] = 128
    /\ \A i \in 2..Len(mag) : mag[i] = 0

EncodeDone == pc \in {"encoded", "roundtrip", "mirrored", "reencoded"}
DecodeDone == pc \in {"decoded", "roundtrip", "reencoded"}

\* ------------------------------------------------------------------ claims

\* C1: round trip. Every decimal with a scale in [0,9] and a value in
\* [MIN, MAX] encodes successfully, and decoding the bytes succeeds and gives a
\* decimal equal in value to the input (the input's mantissa at scale 9).
C1_RoundTrip ==
    /\ (EncodeDone /\ ScaleInRange(decimal)
            /\ MantissaInRange(Mantissa(decimal)))
        => encoded.tag = "Ok"
    /\ pc = "roundtrip"
        => /\ decoded.tag = "Ok"
           /\ DecCmp(decoded.value, decimal) = 0
           /\ decoded.value = BigDecimalOf(Mantissa(decimal), NUMERIC_SCALE)

\* A negative decimal with fractional digits went through encode and decode.
C1_Witness ==
    /\ pc = "roundtrip"
    /\ decimal.int.sign = "Minus"
    /\ decimal.scale = 3
    /\ decimal.int.mag = <<128, 0>>
    /\ decoded.tag = "Ok"

\* C2: wire format. The bytes encode returns, read with the first byte least
\* significant as a two's-complement integer, are the mantissa d * 10^9.
C2_WireFormat ==
    (EncodeDone /\ encoded.tag = "Ok")
        => TwosValue(Reverse(encoded.bytes)) = Mantissa(decimal)

\* A negative mantissa whose low-order byte is zero, so the +1 carries across
\* bytes: -256 * 10^-9.
C2_Witness ==
    /\ pc = "encoded"
    /\ decimal = BigDecimalOf(BigIntOf("Minus", <<1, 0>>), NUMERIC_SCALE)
    /\ encoded = [tag |-> "Ok", bytes |-> <<0, 255>>]

\* C3: minimality. The two's-complement form encode produces is non-empty and
\* its most significant byte is not a redundant sign byte.
C3_Minimal ==
    (EncodeDone /\ encoded.tag = "Ok")
        => /\ encoded.bytes # <<>>
           /\ ~RedundantSignByte(Reverse(encoded.bytes))

\* A negative mantissa that needs its 0xFF sign byte: -129 * 10^-9.
C3_Witness ==
    /\ pc = "encoded"
    /\ decimal = BigDecimalOf(BigIntOf("Minus", <<129>>), NUMERIC_SCALE)
    /\ encoded = [tag |-> "Ok", bytes |-> <<127, 255>>]

\* C4: encode returns ScaleExceeded(actual, 9) exactly when the input has more
\* than 9 fractional digits, actual being the input's count, before the range
\* check; no input with 9 or fewer fractional digits yields ScaleExceeded.
C4_ScaleExceededIffOverNine ==
    (pc = "encoded")
        => /\ encoded.tag = "ScaleExceeded" <=> decimal.scale > NUMERIC_SCALE
           /\ encoded.tag = "ScaleExceeded"
                => encoded = ScaleExceeded(decimal.scale, NUMERIC_SCALE)

\* C5: with the scale check passed, encode returns Overflow, carrying the
\* value, exactly when the value is outside [MIN, MAX]: MAX and MIN encode,
\* 10^29 and -10^29 overflow.
C5_OverflowIffOutside ==
    (pc = "encoded" /\ ScaleInRange(decimal))
        => /\ encoded.tag = "Overflow" <=> ~MantissaInRange(Mantissa(decimal))
           /\ encoded.tag = "Overflow" => encoded.value = decimal
           /\ decimal \in {MAX_NUMERIC_VALUE, MIN_NUMERIC_VALUE} => encoded.tag = "Ok"
           /\ (decimal.scale = 0 /\ decimal.int.mag = OneZeros(IntegerDigits))
                => encoded.tag = "Overflow"

\* -10^29 was given to encode, which returned Overflow.
C5_Witness ==
    /\ pc = "encoded"
    /\ decimal = BigDecimalOf(BigIntOf("Minus", OneZeros(IntegerDigits)), 0)
    /\ encoded.tag = "Overflow"

\* C6: decode is total. For every byte sequence it returns Ok with a value in
\* [MIN, MAX] or Overflow, never a panic and never ScaleExceeded, and Overflow
\* exactly when the integer the bytes denote, over 10^9, is outside [MIN, MAX].
C6_DecodeTotal ==
    DecodeDone
        => /\ decoded.tag \in {"Ok", "Overflow"}
           /\ decoded.tag = "Overflow"
                <=> ~MantissaInRange(TwosValue(Reverse(bytes)))
           /\ decoded.tag = "Ok"
                => /\ DecCmp(decoded.value, MAX_NUMERIC_VALUE) <= 0
                   /\ DecCmp(decoded.value, MIN_NUMERIC_VALUE) >= 0
                   /\ MantissaInRange(decoded.value.int)

\* Decode was given -10^38 behind a redundant 0xFF byte, and returned Overflow.
C6_Witness ==
    /\ pc = "decoded"
    /\ Len(bytes) = 18
    /\ bytes[18] = 255
    /\ TwosValue(Reverse(bytes)) = BigIntOf("Minus", OneZeros(IntegerDigits + FractionDigits))
    /\ decoded.tag = "Overflow"

\* C7: zero. Encoding 0 at any scale in [0,9] gives exactly [0x00]; decoding
\* the empty sequence gives 0, and decoding [0x00] gives 0.
C7_Zero ==
    /\ (pc = "encoded" /\ decimal.int.sign = "NoSign" /\ ScaleInRange(decimal))
        => encoded = [tag |-> "Ok", bytes |-> <<0>>]
    /\ (DecodeDone /\ bytes \in {<<>>, <<0>>})
        => /\ decoded.tag = "Ok"
           /\ decoded.value.int = BigIntOf("NoSign", <<>>)
           /\ DecCmp(decoded.value, BigDecimalOf(BigIntOf("NoSign", <<>>), 0)) = 0

\* The empty sequence was decoded to 0, and that 0 encoded to [0x00].
C7_Witness ==
    /\ pc = "reencoded"
    /\ bytes = <<>>
    /\ decoded.tag = "Ok"
    /\ decimal.int.sign = "NoSign"
    /\ encoded = [tag |-> "Ok", bytes |-> <<0>>]

\* C8: integer decoding is the standard two's-complement reading of every
\* non-empty big-endian sequence, minimal or not; so further redundant sign
\* bytes in front do not change the integer, and the steps that strip leading
\* 0xFF or 0x00 bytes do not change the magnitude decoded.
C8_StandardReading ==
    (DecodeDone /\ bytes # <<>>)
        => LET be == Reverse(bytes) IN
           /\ scaled_value = TwosValue(be)
           /\ \A k \in 1..MaxPad : from_java_byte_array(SignExtend(be, k)) = scaled_value
           /\ be[1] >= 128
                => LET c == ComplementIncrement(be, Len(be), TRUE)
                   IN  Normalize(StripLeadingFF(c)) = Normalize(c)
           /\ be[1] < 128
                => Normalize(SubSeq(be, SkipLeadingZeros(be, 1), Len(be))) = Normalize(be)

\* A non-minimal negative form: 0xFF 0xFF 0x80 (big-endian), which is -128.
C8_Witness ==
    /\ pc = "decoded"
    /\ bytes = <<128, 255, 255>>
    /\ scaled_value = BigIntOf("Minus", <<128>>)

\* C9: sign symmetry. For a nonzero accepted decimal, encode(d) and encode(-d)
\* are equally long, unless the mantissa magnitude is 2^(8k-1): then the
\* positive encoding is one byte longer than the negative one.
C9_SignSymmetry ==
    (pc = "mirrored" /\ decimal.int.sign # "NoSign")
        => /\ encoded_neg.tag = "Ok"
           /\ LET pos == IF decimal.int.sign = "Plus" THEN encoded ELSE encoded_neg
                  neg == IF decimal.int.sign = "Plus" THEN encoded_neg ELSE encoded
              IN  IF IsSignBitPower(Mantissa(decimal).mag)
                  THEN Len(pos.bytes) = Len(neg.bytes) + 1
                  ELSE Len(pos.bytes) = Len(neg.bytes)

\* Mantissa 128 took two bytes and mantissa -128 one.
C9_Witness ==
    /\ pc = "mirrored"
    /\ decimal = BigDecimalOf(BigIntOf("Plus", <<128>>), NUMERIC_SCALE)
    /\ Len(encoded.bytes) = 2
    /\ Len(encoded_neg.bytes) = 1

\* C10: canonical inverse. Whenever decode succeeds on b, the decoded decimal
\* has scale 9 and encode succeeds on it, returning b without its redundant
\* sign-extension bytes ([0x00] for the empty b), so b itself when b is
\* non-empty and minimal; and every successful encode output has 1 to 16 bytes.
C10_CanonicalInverse ==
    /\ (DecodeDone /\ decoded.tag = "Ok") => decoded.value.scale = NUMERIC_SCALE
    /\ pc = "reencoded"
        => /\ encoded.tag = "Ok"
           /\ encoded.bytes = Reverse(Canonical(Reverse(bytes)))
           /\ (bytes # <<>> /\ ~RedundantSignByte(Reverse(bytes))) => encoded.bytes = bytes
    /\ (EncodeDone /\ encoded.tag = "Ok") => Len(encoded.bytes) \in 1..16

\* MIN's 16 bytes behind two redundant 0xFF bytes were decoded and encoded
\* back to the 16.
C10_Witness ==
    /\ pc = "reencoded"
    /\ Len(bytes) = 18
    /\ decoded.tag = "Ok"
    /\ decoded.value = MIN_NUMERIC_VALUE
    /\ Len(encoded.bytes) = 16

====
